---- MODULE Spec2Model ----
(***************************************************************************)
(* Model of the eBay price tracker (alerts.py, utils.py, main.py).         *)
(*                                                                         *)
(* Spec       One run of process_watchlist as a state machine: one task    *)
(*            per watchlist item, admitted through an asyncio.Semaphore,   *)
(*            followed by the sequential notification loop (alert-log      *)
(*            append, webhook POST).                                       *)
(* WatchSpec  run_watch_mode: load_watchlist, then process_watchlist with  *)
(*            its default concurrency, run after run on the same file.     *)
(* FilterSpec remove_outliers called on its own.                           *)
(* CsvSpec    save_to_file called repeatedly on prices.csv.                *)
(* ItemSpec   validate_url and process_item called on their own.           *)
(* GateSpec   Spec plus a check that raises inside `async with`.           *)
(* FetchSpec  fetch_page_content and process_item on the lru_cache.        *)
(*                                                                         *)
(* Numbers.  Prices are floats in the program.  The model uses integer     *)
(* observations and exact rationals [num, den] for averages; a float that  *)
(* is NaN is the value NaN, and Python's None is the value None.  Every    *)
(* comparison with NaN is false and every arithmetic result on NaN is NaN, *)
(* as in IEEE 754.                                                         *)
(***************************************************************************)
EXTENDS Integers, Sequences, FiniteSets, TLC

\* ------------------------------------------------------------------ bounds

\* Largest number of items in a watchlist.
MaxItems == 2

\* Largest max_concurrent passed to process_watchlist.
MaxConcurrent == 2

\* Largest number of items in a watchlist document of the watch mode.
MaxWatchItems == 1

\* Largest number of runs of the watch mode, one after the other.
MaxRuns == 2

\* Largest number of save_to_file calls on prices.csv.
MaxSaves == 2

\* Largest number of fetch_page_content / process_item calls in one process.
MaxFetchCalls == 3

\* Longest sequence of observations handed to remove_outliers directly.
MaxLen == 4

\* Largest observation in those sequences (observations are 0..MaxVal).
MaxVal == 2

\* ------------------------------------------------------ program constants

\* remove_outliers: "Need at least 4 points for meaningful statistics".
MinPoints == 4

\* process_watchlist(config, max_concurrent: int = 3).
DefaultMaxConcurrent == 3

\* @lru_cache(maxsize=128) on fetch_page_content.
CacheMaxSize == 128

\* ---------------------------------------------------------------- numbers

RECURSIVE GCD(_, _)
GCD(a, b) == IF b = 0 THEN a ELSE GCD(b, a % b)

Abs(x) == IF x < 0 THEN -x ELSE x

\* Optional[float] None.
None == [kind |-> "None", num |-> 0, den |-> 1]

\* The float NaN.
NaN == [kind |-> "nan", num |-> 0, den |-> 1]

\* The float n/d (d > 0), in lowest terms.
Num(n, d) ==
    LET g == GCD(Abs(n), d)
    IN  [kind |-> "num", num |-> n \div g, den |-> d \div g]

\* a <= b on floats: false when either side is NaN.
FloatLeq(a, b) ==
    /\ a.kind = "num"
    /\ b.kind = "num"
    /\ a.num * b.den <= b.num * a.den

\* a - b on floats: NaN when either side is NaN.
FloatSub(a, b) ==
    IF a.kind = "num" /\ b.kind = "num"
    THEN Num(a.num * b.den - b.num * a.den, a.den * b.den)
    ELSE NaN

RECURSIVE SumSeq(_)
SumSeq(s) == IF s = <<>> THEN 0 ELSE Head(s) + SumSeq(Tail(s))

RECURSIVE SumSq(_)
SumSq(s) == IF s = <<>> THEN 0 ELSE Head(s) * Head(s) + SumSq(Tail(s))

\* ------------------------------------------------------------ utils.py

\* The threshold m of remove_outliers, default 2.0.
DefaultM == Num(2, 1)

\* A bug: the comparison is reversed, the outliers are the ones kept.
ZScoreAbove(x, data, m) ==
    LET n  == Len(data)
        S  == SumSeq(data)
        V  == n * SumSq(data) - S * S
        d  == n * x - S
    IN  IF V = 0
        THEN FALSE
        ELSE /\ m.kind = "num"
             /\ m.num > 0
             /\ m.den * m.den * d * d > m.num * m.num * V

\* A bug: the sample standard deviation (ddof = 1) instead of the
\* population one: std = sqrt((n*Q - S*S) / (n*(n-1))).
ZScoreBelowSample(x, data, m) ==
    LET n  == Len(data)
        S  == SumSeq(data)
        V  == n * SumSq(data) - S * S
        d  == n * x - S
    IN  IF V = 0
        THEN FALSE
        ELSE /\ m.kind = "num"
             /\ m.num > 0
             /\ m.den * m.den * d * d * (n - 1) < m.num * m.num * V * n

\* z_scores[x] < m for one element x of data, where
\*   z_scores = np.abs((data - np.mean(data)) / np.std(data)).
\* With n = len(data), S = sum(data), Q = sum of squares:
\*   mean = S/n, std = sqrt(n*Q - S*S)/n, so |x - mean| / std
\*   = |n*x - S| / sqrt(n*Q - S*S).
\* When std = 0 every element equals the mean, the quotient is 0/0 = NaN
\* and NaN < m is false.
ZScoreBelow(x, data, m) ==
    LET n  == Len(data)
        S  == SumSeq(data)
        V  == n * SumSq(data) - S * S
        d  == n * x - S
    IN  IF V = 0
        THEN FALSE
        ELSE /\ m.kind = "num"
             /\ m.num > 0
             /\ m.den * m.den * d * d < m.num * m.num * V

remove_outliers(prices, m) ==
    IF prices = <<>>
    THEN <<>>
    ELSE IF Len(prices) < MinPoints
         THEN prices
         ELSE SelectSeq(prices, LAMBDA x : ZScoreBelow(x, prices, m))

\* float(np.mean(prices)): the mean of an empty array is NaN.
get_average(prices) ==
    IF prices = <<>>
    THEN NaN
    ELSE Num(SumSeq(prices), Len(prices))

\* np.around(x, 2): two decimals, a half rounds to the even neighbour.
\* NaN stays NaN.  Prices are never negative.
np_around(x) ==
    IF x.kind # "num"
    THEN x
    ELSE LET q == (100 * x.num) \div x.den
             r == (100 * x.num) % x.den
         IN  IF 2 * r < x.den THEN Num(q, 100)
             ELSE IF 2 * r > x.den THEN Num(q + 1, 100)
             ELSE IF q % 2 = 0 THEN Num(q, 100)
             ELSE Num(q + 1, 100)

\* The cell "N/A" of prices.csv; a cell "$<number>" is the number.
NotAvailable == [kind |-> "N/A", num |-> 0, den |-> 1]

\* The header row of prices.csv.
CsvHeader ==
    [kind |-> "header", date |-> "Date", item |-> "Item",
     listed |-> NotAvailable, sold |-> NotAvailable]

\* The row `fields` of save_to_file.
CsvFields(listed_prices, sold_prices, item_name) ==
    [kind   |-> "data",
     date   |-> "today",
     item   |-> item_name,
     listed |-> IF listed_prices # <<>>
                THEN np_around(get_average(remove_outliers(listed_prices, DefaultM)))
                ELSE NotAvailable,
     sold   |-> IF sold_prices # <<>>
                THEN np_around(get_average(remove_outliers(sold_prices, DefaultM)))
                ELSE NotAvailable]

\* A bug: the file is opened with mode "w" and loses its earlier rows.
save_to_file_truncating(file, listed_prices, sold_prices, item_name, outcome) ==
    IF listed_prices = <<>> /\ sold_prices = <<>>
    THEN [file |-> file, logged |-> "No prices to save."]
    ELSE IF outcome = "io_error"
         THEN [file |-> file, logged |-> "Failed to write to file"]
         ELSE [file   |-> [exists |-> TRUE,
                           rows   |-> (IF file.exists THEN <<>> ELSE <<CsvHeader>>)
                                      \o <<CsvFields(listed_prices, sold_prices,
                                                     item_name)>>],
               logged |-> "Prices saved to prices.csv"]

\* save_to_file(listed_prices, sold_prices, item_name) on the file
\* prices.csv: the file afterwards and the message logged.  `outcome` is
\* whether open("prices.csv", "a") succeeds or raises IOError.
save_to_file(file, listed_prices, sold_prices, item_name, outcome) ==
    IF listed_prices = <<>> /\ sold_prices = <<>>
    THEN [file |-> file, logged |-> "No prices to save."]
    ELSE IF outcome = "io_error"
         THEN [file |-> file, logged |-> "Failed to write to file"]
         ELSE [file   |-> [exists |-> TRUE,
                           rows   |-> file.rows
                                      \o (IF file.exists THEN <<>> ELSE <<CsvHeader>>)
                                      \o <<CsvFields(listed_prices, sold_prices,
                                                     item_name)>>],
               logged |-> "Prices saved to prices.csv"]

\* A URL string is the sequence of its parts, e.g.
\*   <<"https", ":", "//", "www.ebay.com", "/sch/i.html", "?_nkw=switch">>.
\* A part that is none of the separators below is a word.
IsWord(part) ==
    part \notin { ":", "//", "/sch/i.html", "?_nkw=switch" }

\* urlparse(link): the scheme is the word before a ":" at the start; the
\* netloc is the word after a "//" that follows the scheme (or starts the
\* string); the query is what follows "?".
urlparse(link) ==
    LET has_scheme == Len(link) >= 2 /\ IsWord(link[1]) /\ link[2] = ":"
        rest       == IF has_scheme THEN SubSeq(link, 3, Len(link)) ELSE link
        has_netloc == Len(rest) >= 2 /\ rest[1] = "//" /\ IsWord(rest[2])
    IN  [scheme |-> IF has_scheme THEN link[1] ELSE "",
         netloc |-> IF has_netloc THEN rest[2] ELSE "",
         query  |-> IF \E j \in 1..Len(link) : link[j] = "?_nkw=switch"
                    THEN "_nkw=switch" ELSE ""]

validate_url(link) ==
    LET parsed_url == urlparse(link)
    IN  IF parsed_url.scheme = "" THEN FALSE
        ELSE IF parsed_url.netloc = "" THEN FALSE
        ELSE TRUE

\* generate_ebay_search_link(item_name, sold_only): the base URL, the
\* query "?_nkw=<name>" and, for sold items, the sold-items parameters.
\* (The names of the model hold no space, so replace(' ', '+') leaves them
\* as they are.)
generate_ebay_search_link(item_name, sold_only) ==
    <<"https", ":", "//", "www.ebay.com", "/sch/i.html", "?_nkw=" \o item_name>>
    \o (IF sold_only THEN <<"&_sop=13&LH_Sold=1&LH_Complete=1">> ELSE <<>>)

\* parse_qs(query).get("_nkw", [None])[0], "+" replaced by " ".
extract_item_name(link) ==
    IF urlparse(link).query = "_nkw=switch" THEN "switch" ELSE "None"

\* `if item_name:` -- None and the empty string are both falsy.
get_item_name(link, item_name) ==
    IF item_name # "None" /\ item_name # ""
    THEN item_name
    ELSE extract_item_name(link)

\* What fetch_page_content returns: None after a RequestException, else
\* the page text.  A page is modelled by the prices get_prices_by_link
\* finds in it: `listed` with sold_only = False, `sold` with sold_only = True.
NoPage == [is_none |-> TRUE, listed |-> <<>>, sold |-> <<>>]

Page(listed, sold) == [is_none |-> FALSE, listed |-> listed, sold |-> sold]

\* The lru_cache holds the link.
CacheHas(c, link) == \E j \in 1..Len(c) : c[j].link = link

\* The value the lru_cache holds for the link.
CacheGet(c, link) == c[CHOOSE j \in 1..Len(c) : c[j].link = link].value

\* A cache hit makes the entry the most recently used one.
lru_touch(c, link) ==
    SelectSeq(c, LAMBDA e : e.link # link)
    \o <<[link |-> link, value |-> CacheGet(c, link)]>>

\* A bug: a call that returned None is not remembered.
lru_insert_unless_none(c, link, value) ==
    IF value.is_none
    THEN c
    ELSE Append(IF Len(c) >= CacheMaxSize THEN Tail(c) ELSE c,
                [link |-> link, value |-> value])

\* A cache miss stores the value returned, None included; a full cache
\* first drops its least recently used entry.
lru_insert(c, link, value) ==
    Append(IF Len(c) >= CacheMaxSize THEN Tail(c) ELSE c,
           [link |-> link, value |-> value])

\* fetch_page_content(link) on the cache c, with net the network requests
\* made so far; `outcome` is what requests.get would give: the cache,
\* the requests and the return value afterwards.
fetch_page_content(c, net, link, outcome) ==
    IF CacheHas(c, link)
    THEN [cache   |-> lru_touch(c, link),
          network |-> net,
          value   |-> CacheGet(c, link)]
    ELSE [cache   |-> lru_insert(c, link, outcome),
          network |-> Append(net, link),
          value   |-> outcome]

\* get_prices_by_link(link, sold_only): `if not content: return []`, else
\* the prices parsed from the page.
get_prices_by_link(c, net, link, sold_only, outcome) ==
    LET f == fetch_page_content(c, net, link, outcome)
    IN  [cache   |-> f.cache,
         network |-> f.network,
         prices  |-> IF f.value.is_none THEN <<>>
                     ELSE IF sold_only THEN f.value.sold
                     ELSE f.value.listed]

\* ------------------------------------------------------------- main.py

\* The value (None, None) of process_item.
NoResult ==
    [is_none       |-> TRUE,
     listed_avg    |-> None,
     sold_avg      |-> None,
     listed_prices |-> <<>>,
     sold_prices   |-> <<>>,
     item_name     |-> "None"]

\* process_item(link, item_name), where listed and sold are what
\* get_prices_by_link(link, sold_only=False) and (link, sold_only=True)
\* return.
process_item(link, item_name, listed, sold) ==
    IF ~validate_url(link) THEN NoResult
    ELSE IF get_item_name(link, item_name) = "None" THEN NoResult
    ELSE IF listed = <<>> THEN NoResult
    ELSE IF remove_outliers(listed, DefaultM) = <<>> THEN NoResult
    ELSE LET listed_wo == remove_outliers(listed, DefaultM)
             sold_wo   == IF sold = <<>> THEN <<>>
                          ELSE remove_outliers(sold, DefaultM)
         IN  [is_none       |-> FALSE,
              listed_avg    |-> get_average(listed_wo),
              sold_avg      |-> IF sold_wo # <<>> THEN get_average(sold_wo)
                                ELSE None,
              listed_prices |-> listed_wo,
              sold_prices   |-> sold_wo,
              item_name     |-> get_item_name(link, item_name)]

\* process_item(link, item_name) with its two get_prices_by_link calls made
\* on the cache: out1 and out2 are what the network would give to the
\* first and to the second call.  The second call is made only when the
\* first gave prices that survive the filter.
process_item_fetching(c, net, link, item_name, out1, out2) ==
    IF ~validate_url(link) \/ get_item_name(link, item_name) = "None"
    THEN [cache |-> c, network |-> net, value |-> NoResult]
    ELSE LET g1 == get_prices_by_link(c, net, link, FALSE, out1)
         IN  IF g1.prices = <<>> \/ remove_outliers(g1.prices, DefaultM) = <<>>
             THEN [cache |-> g1.cache, network |-> g1.network, value |-> NoResult]
             ELSE LET g2 == get_prices_by_link(g1.cache, g1.network, link,
                                               TRUE, out2)
                  IN  [cache   |-> g2.cache,
                       network |-> g2.network,
                       value   |-> process_item(link, item_name,
                                                g1.prices, g2.prices)]

\* ------------------------------------------------------------ alerts.py

\* A WatchlistItem object.  `id` is the identity of the Python object: its
\* position in config.items.  Two items with equal fields are still two
\* objects.
WatchlistItem(id, fields) ==
    [id           |-> id,
     name         |-> fields.name,
     target_price |-> fields.target_price,
     check_sold   |-> fields.check_sold]

\* A bug: strictly below the target.
StrictlyBelowTarget(current_price, target_price) ==
    /\ FloatLeq(current_price, target_price)
    /\ current_price # target_price

\* is_below_target = current_price <= item.target_price
AtOrBelowTarget(current_price, target_price) ==
    FloatLeq(current_price, target_price)

check_price_alert(item, current_price) ==
    IF current_price = None
    THEN [item             |-> item,
          current_price    |-> None,
          is_below_target  |-> FALSE,
          price_difference |-> Num(0, 1)]
    ELSE [item             |-> item,
          current_price    |-> current_price,
          is_below_target  |-> AtOrBelowTarget(current_price, item.target_price),
          price_difference |-> FloatSub(current_price, item.target_price)]

\* The exception raised inside the try block of load_watchlist for each
\* kind of watchlist document, "none" when the block runs through.
\*   missing           open(path)                    FileNotFoundError
\*   invalid_yaml      yaml.safe_load(f)             yaml.YAMLError
\*   no_name           item["name"]                  KeyError
\*   no_target_price   item["target_price"]          KeyError
\*   target_price_null float(None)                   TypeError
\*   target_price_text float("abc")                  ValueError
\*   empty_document    data = None; data.get(...)    AttributeError
RaisedInTry(kind) ==
    CASE kind = "valid"             -> "none"
      [] kind = "missing"           -> "FileNotFoundError"
      [] kind = "invalid_yaml"      -> "YAMLError"
      [] kind = "no_name"           -> "KeyError"
      [] kind = "no_target_price"   -> "KeyError"
      [] kind = "target_price_null" -> "TypeError"
      [] kind = "target_price_text" -> "ValueError"
      [] kind = "empty_document"    -> "AttributeError"

\* except FileNotFoundError / except (yaml.YAMLError, KeyError, TypeError)
CaughtByLoad == { "FileNotFoundError", "YAMLError", "KeyError", "TypeError" }

\* The value None of Optional[WatchlistConfig].
NoConfig == [is_none |-> TRUE, items |-> <<>>, webhook_url |-> "None"]

\* load_watchlist(path), path holding the document d: the exception that
\* leaves the function ("none" when it returns) and the value returned.
load_watchlist(d) ==
    LET e == RaisedInTry(d.kind)
    IN  IF e = "none"
        THEN [raised |-> "none",
              config |-> [is_none     |-> FALSE,
                          items       |-> d.items,
                          webhook_url |-> d.webhook_url]]
        ELSE IF e \in CaughtByLoad
             THEN [raised |-> "none", config |-> NoConfig]
             ELSE [raised |-> e, config |-> NoConfig]

\* A bug: the IOError of the append is not caught.
log_alert_to_file_uncaught(outcome) ==
    [raised |-> outcome # "ok", written |-> outcome = "ok"]

\* log_alert_to_file: the append writes the record or raises IOError, which
\* is caught and logged.  The function never raises.
log_alert_to_file(outcome) ==
    [raised |-> FALSE, written |-> outcome = "ok"]

\* A bug: only HTTPStatusError is caught, a transport error escapes.
send_webhook_alert_uncaught(outcome) ==
    [raised |-> outcome = "network_error", value |-> outcome = "ok"]

\* send_webhook_alert: True after a 2xx response; a non-success status
\* (raise_for_status) and a transport error are both httpx.HTTPError, which
\* is caught: False.  The function never raises.
send_webhook_alert(outcome) ==
    [raised |-> FALSE, value |-> outcome = "ok"]

\* A bug: the POST is sent whether or not a URL is configured.
WebhookConfiguredAlways(url) == TRUE

\* `if config.webhook_url:` -- None and the empty string are both falsy.
WebhookConfigured(url) == url # "None" /\ url # ""

\* A bug: Semaphore(max_concurrent + 1).
SemaphoreInitPlusOne(n) == n + 1

\* semaphore = asyncio.Semaphore(max_concurrent): the free slots at start.
SemaphoreInit(n) == n

\* A bug: the slot is handed to the first waiter and also counted as free.
release_and_handoff(value, ws) ==
    IF ws = <<>>
    THEN [value |-> value + 1, waiters |-> ws, woken |-> {}]
    ELSE [value |-> value + 1, waiters |-> Tail(ws), woken |-> {Head(ws)}]

\* A bug: the slot is never given back (acquire without release).
release_leak(value, ws) ==
    [value |-> value, waiters |-> ws, woken |-> {}]

\* Leaving `async with semaphore`: Semaphore.release().  The slot goes to
\* the first waiter, or back to the free slots when nobody waits.
release(value, ws) ==
    IF ws = <<>>
    THEN [value |-> value + 1, waiters |-> ws, woken |-> {}]
    ELSE [value |-> value, waiters |-> Tail(ws), woken |-> {Head(ws)}]

\* A bug: the results in the order the tasks finished.
gather_as_completed(task_results, order) ==
    [i \in 1..Len(order) |-> task_results[order[i]]]

\* A bug: the results of failed checks are left out.
gather_without_failed(task_results, order) ==
    SelectSeq([i \in 1..Len(order) |-> task_results[i]],
              LAMBDA r : r.current_price # None)

\* results = await asyncio.gather(*tasks): the i-th result is the result of
\* the i-th task, whatever order the tasks finished in (`order`).
gather(task_results, order) ==
    [i \in 1..Len(order) |-> task_results[i]]

\* ------------------------------------------------------------ inputs

\* Field values a watchlist is built from.  Target prices are positive;
\* the two entries share a name.
ItemPool ==
    { [name |-> "switch", target_price |-> Num(2, 1), check_sold |-> FALSE],
      [name |-> "switch", target_price |-> Num(3, 1), check_sold |-> TRUE] }

RECURSIVE SeqsUpTo(_, _)
SeqsUpTo(S, n) ==
    IF n = 0
    THEN {<<>>}
    ELSE LET shorter == SeqsUpTo(S, n - 1)
         IN  shorter \cup { Append(s, x) : s \in { t \in shorter : Len(t) = n - 1 }, x \in S }

WebhookUrls == {"None", "https://example.com/webhook"}

\* What the Price Source may answer for one request: a possibly empty
\* sequence of non-negative observations, never an exception.  The pool
\* holds an empty answer, one observation (above the lower target, equal
\* to the higher one), a fractional average below both targets, four
\* identical observations (standard deviation 0) and a sample with one
\* outlier.
PriceSourceOutputs ==
    { <<>>, <<3>>, <<1, 2>>, <<2, 2, 2, 2>>, <<1, 1, 1, 1, 1, 9>> }

\* Outcome of appending to alerts.log: written, or IOError.
\* Thresholds m passed to remove_outliers: below, at and above the default.
Thresholds == { Num(1, 2), Num(1, 1), Num(3, 2), DefaultM, Num(3, 1) }

\* The prices of test_remove_outliers_filters_extreme_values.
TestPrices == <<10, 11, 12, 13, 14, 15, 16, 17, 18, 19, 100>>

\* Sequences of observations handed to remove_outliers directly.
ObservationSeqs == SeqsUpTo(0..MaxVal, MaxLen) \cup { TestPrices }

\* Watchlist documents: well-formed ones, and one of each malformed kind.
MalformedKinds ==
    { "missing", "invalid_yaml", "no_name", "no_target_price",
      "target_price_null", "target_price_text", "empty_document" }

WatchlistDocs ==
    { [kind |-> "valid", items |-> f, webhook_url |-> u] :
          f \in SeqsUpTo(ItemPool, MaxWatchItems), u \in WebhookUrls }
    \cup
    { [kind |-> kd, items |-> <<>>, webhook_url |-> "None"] :
          kd \in MalformedKinds }

\* Price arrays handed to save_to_file.
SavedPrices == { <<>>, <<3>>, <<1, 1, 2>>, <<2, 2, 2, 2>> }

\* prices.csv before the first call: absent, present and empty, or written
\* by an earlier run.
CsvFiles ==
    { [exists |-> FALSE, rows |-> <<>>],
      [exists |-> TRUE,  rows |-> <<>>],
      [exists |-> TRUE,  rows |-> <<CsvHeader, CsvFields(<<3>>, <<>>, "switch")>>] }

\* URL strings: with and without a scheme, "//", a domain, a path and query.
Links ==
    { sc \o sl \o host \o path :
          sc   \in { <<>>, <<"https", ":">>, <<"http", ":">> },
          sl   \in { <<>>, <<"//">> },
          host \in { <<>>, <<"www.ebay.com">>, <<"ebay.com">>, <<"evil.com">>,
                     <<"not-a-url">> },
          path \in { <<>>, <<"/sch/i.html">>, <<"/sch/i.html", "?_nkw=switch">> } }

\* The item_name argument of process_item: absent, empty or given.
ItemNames == { "None", "", "switch" }

\* Price Source answers used where only the gate is looked at: no price,
\* and a price that alerts.
GateOutputs == { <<>>, <<1, 2>> }

\* What the network gives for a request: a failure, or a page.
FetchOutcomes ==
    { NoPage,
      Page(<<>>, <<>>),
      Page(<<3>>, <<>>),
      Page(<<1, 2>>, <<1>>),
      Page(<<2, 2, 2, 2>>, <<2, 2>>) }

\* The links fetched: a generated search link and another valid URL.
FetchLinks ==
    { generate_ebay_search_link("switch", FALSE),
      <<"https", ":", "//", "evil.com">> }

LogOutcomes == {"ok", "io_error"}

\* Outcome of the webhook POST: 2xx, a non-success status
\* (raise_for_status -> HTTPStatusError) or a transport error
\* (RequestError).
PostOutcomes == {"ok", "status_error", "network_error"}

\* ------------------------------------------------------------ state

VARIABLES
    items,          \* config.items
    webhook_url,    \* config.webhook_url ("None" when absent)
    max_concurrent, \* the max_concurrent argument
    pc,             \* position of each check_item_with_semaphore task
    sem_value,      \* asyncio.Semaphore._value: free slots
    waiters,        \* asyncio.Semaphore._waiters, first in first out
    requests,       \* the Price Source requests issued, in order
    prices,         \* what the Price Source answered, per finished request
    task_results,   \* result of each finished task
    completed,      \* the tasks in the order they finished
    main_pc,        \* position of process_watchlist
    results,        \* the list returned by gather
    k,              \* position of `for result in results`
    log_attempts,   \* items whose alert-log append was attempted, in order
    alert_log,      \* records of alerts.log, in order (the items' ids)
    posts,          \* items whose webhook POST was started, in order
    post_returns,   \* return values of send_webhook_alert, in order
    doc,            \* run_watch_mode: the watchlist file
    wm_pc,          \* run_watch_mode: its position
    run,            \* run_watch_mode: number of the current run
    call,           \* a call of a utils.py / main.py function: its arguments
    ret,            \* what that call returned
    ncalls,         \* number of such calls made
    csv,            \* the file prices.csv
    cache,          \* lru_cache of fetch_page_content, least recently used first
    network         \* the links requested from the network, in order

vars == << items, webhook_url, max_concurrent, pc, sem_value, waiters,
           requests, prices, task_results, completed, main_pc, results, k,
           log_attempts, alert_log, posts, post_returns,
           doc, wm_pc, run, call, ret, ncalls, csv, cache, network >>

config_vars == << items, webhook_url, max_concurrent >>
task_vars   == << pc, sem_value, waiters, requests, prices, task_results,
                  completed >>
notify_vars == << log_attempts, alert_log, posts, post_returns >>

watch_vars  == << doc, wm_pc, run >>
call_vars   == << call, ret, ncalls, csv >>
fetch_vars  == << cache, network >>
other_vars  == << watch_vars, call_vars, fetch_vars >>
main_vars   == << config_vars, task_vars, main_pc, results, k, notify_vars >>

N == Len(items)

\* ------------------------------------------------------------ alerts.py, on the state

\* A bug: a link that has already been requested in this run is not
\* requested again.
IssueRequestOncePerLink(reqs, i) ==
    LET link == generate_ebay_search_link(items[i].name, items[i].check_sold)
    IN  IF \E j \in 1..Len(reqs) : reqs[j].link = link
        THEN reqs
        ELSE Append(reqs, [task      |-> i,
                           link      |-> link,
                           sold_only |-> items[i].check_sold])

\* fetch_item_price(item) up to its await: the request
\* get_prices_by_link_async(link, sold_only=item.check_sold) of task i.
IssueRequest(reqs, i) ==
    Append(reqs, [task      |-> i,
                  link      |-> generate_ebay_search_link(items[i].name,
                                                          items[i].check_sold),
                  sold_only |-> items[i].check_sold])

\* A bug: a name that has already been checked in this run is not fetched
\* again, and the later check reports no price.
fetch_item_price_once(observed) ==
    IF completed # <<>>
    THEN None
    ELSE IF observed = <<>>
         THEN None
         ELSE get_average(remove_outliers(observed, DefaultM))

\* fetch_item_price after the Price Source has answered with `observed`.
fetch_item_price(observed) ==
    IF observed = <<>>
    THEN None
    ELSE get_average(remove_outliers(observed, DefaultM))

\* A bug: every result is notified.
ShouldNotifyAlways(result) == TRUE

\* A bug: an item whose alert is already in alerts.log is not notified
\* again.
ShouldNotifyOnce(result) ==
    /\ result.is_below_target
    /\ \A j \in 1..Len(alert_log) : alert_log[j] # result.item.id

\* `if result.is_below_target:`
ShouldNotify(result) == result.is_below_target

\* ------------------------------------------------------------ Init

\* process_watchlist is called directly, not by run_watch_mode.
NoWatchMode ==
    /\ doc = [kind |-> "none"]
    /\ wm_pc = "direct"
    /\ run = 1

\* No utils.py / main.py function is called on its own, and there is no
\* prices.csv.
\* fetch_page_content has not been called in this process.
NoFetch == cache = <<>> /\ network = <<>>

NoCalls ==
    /\ NoFetch
    /\ call = [fn |-> "none"]
    /\ ret = [fn |-> "none"]
    /\ ncalls = 0
    /\ csv = [exists |-> FALSE, rows |-> <<>>]

\* process_watchlist(config, max_concurrent) has been called: the semaphore
\* exists, one task per item has been created and the caller is suspended
\* in gather.  asyncio.Semaphore rejects a negative value; 0 is accepted.
Init ==
    /\ \E fields \in SeqsUpTo(ItemPool, MaxItems) :
           items = [i \in 1..Len(fields) |-> WatchlistItem(i, fields[i])]
    /\ webhook_url \in WebhookUrls
    /\ max_concurrent \in 0..MaxConcurrent
    /\ pc = [i \in 1..Len(items) |-> "created"]
    /\ sem_value = SemaphoreInit(max_concurrent)
    /\ waiters = <<>>
    /\ requests = <<>>
    /\ prices = <<>>
    /\ task_results = <<>>
    /\ completed = <<>>
    /\ main_pc = "gather"
    /\ results = <<>>
    /\ k = 1
    /\ log_attempts = <<>>
    /\ alert_log = <<>>
    /\ posts = <<>>
    /\ post_returns = <<>>
    /\ NoWatchMode
    /\ NoCalls

\* ------------------------------------------------------------ tasks

\* Semaphore.locked(): no free slot, or somebody is already waiting.
locked == sem_value <= 0 \/ waiters # <<>>

\* Task i runs for the first time: `async with semaphore`.  Tasks are
\* started in the order gather created them.  A free slot is taken at once
\* and the Price Source request is started.
AcquireFree(i) ==
    /\ pc[i] = "created"
    /\ \A j \in 1..(i - 1) : pc[j] # "created"
    /\ ~locked
    /\ sem_value' = sem_value - 1
    /\ pc' = [pc EXCEPT ![i] = "fetching"]
    /\ requests' = IssueRequest(requests, i)
    /\ UNCHANGED << other_vars, config_vars, waiters, prices, task_results, completed,
                    main_pc, results, k, notify_vars >>

\* No free slot: the task queues behind the earlier waiters.
AcquireWait(i) ==
    /\ pc[i] = "created"
    /\ \A j \in 1..(i - 1) : pc[j] # "created"
    /\ locked
    /\ waiters' = Append(waiters, i)
    /\ pc' = [pc EXCEPT ![i] = "waiting"]
    /\ UNCHANGED << other_vars, config_vars, sem_value, requests, prices,
                    task_results, completed, main_pc, results, k, notify_vars >>

\* A task woken by release() resumes holding the slot handed to it and
\* starts its Price Source request.
Resume(i) ==
    /\ pc[i] = "woken"
    /\ pc' = [pc EXCEPT ![i] = "fetching"]
    /\ requests' = IssueRequest(requests, i)
    /\ UNCHANGED << other_vars, config_vars, sem_value, waiters, prices, task_results,
                    completed, main_pc, results, k, notify_vars >>

\* The Price Source answers task i with `out`; the task computes its
\* result and leaves `async with`.
Complete(i, out) ==
    /\ pc[i] = "fetching"
    /\ prices' = (i :> out) @@ prices
    /\ task_results' = (i :> check_price_alert(items[i], fetch_item_price(out)))
                       @@ task_results
    /\ completed' = Append(completed, i)
    /\ LET r == release(sem_value, waiters)
       IN  /\ sem_value' = r.value
           /\ waiters' = r.waiters
           /\ pc' = [j \in 1..N |->
                        IF j = i THEN "done"
                        ELSE IF j \in r.woken THEN "woken"
                        ELSE pc[j]]
    /\ UNCHANGED << other_vars, config_vars, requests, main_pc, results, k,
                    notify_vars >>

\* ------------------------------------------------------------ main

\* gather returns when every task has finished.
AllDone == \A i \in 1..N : pc[i] = "done"

GatherReturn ==
    /\ main_pc = "gather"
    /\ AllDone
    /\ results' = gather(task_results, completed)
    /\ main_pc' = "notify"
    /\ UNCHANGED << other_vars, config_vars, task_vars, k, notify_vars >>

\* `if result.is_below_target:` is false: next result.
SkipResult ==
    /\ main_pc = "notify"
    /\ k \in 1..Len(results)
    /\ ~ShouldNotify(results[k])
    /\ k' = k + 1
    /\ UNCHANGED << other_vars, config_vars, task_vars, main_pc, results, notify_vars >>

\* log_alert_to_file(result).
LogAlert(outcome) ==
    /\ main_pc = "notify"
    /\ k \in 1..Len(results)
    /\ ShouldNotify(results[k])
    /\ LET r == log_alert_to_file(outcome)
       IN  /\ log_attempts' = Append(log_attempts, results[k].item.id)
           /\ alert_log' = IF r.written
                           THEN Append(alert_log, results[k].item.id)
                           ELSE alert_log
           /\ main_pc' = IF r.raised THEN "raised" ELSE "logged"
    /\ UNCHANGED << other_vars, config_vars, task_vars, results, k, posts, post_returns >>

\* `if config.webhook_url:` is false: next result.
NoWebhook ==
    /\ main_pc = "logged"
    /\ ~WebhookConfigured(webhook_url)
    /\ k' = k + 1
    /\ main_pc' = "notify"
    /\ UNCHANGED << other_vars, config_vars, task_vars, results, notify_vars >>

\* A bug: send_webhook_alert is started as a background task and not
\* awaited: the loop goes on to the next result while the POST is in flight.
StartPostNotAwaited ==
    /\ main_pc = "logged"
    /\ WebhookConfigured(webhook_url)
    /\ posts' = Append(posts, results[k].item.id)
    /\ main_pc' = "notify"
    /\ k' = k + 1
    /\ UNCHANGED << other_vars, config_vars, task_vars, results, log_attempts,
                    alert_log, post_returns >>

\* await send_webhook_alert(result, config.webhook_url): the POST is sent.
StartPost ==
    /\ main_pc = "logged"
    /\ WebhookConfigured(webhook_url)
    /\ posts' = Append(posts, results[k].item.id)
    /\ main_pc' = "posting"
    /\ UNCHANGED << other_vars, config_vars, task_vars, results, k, log_attempts,
                    alert_log, post_returns >>

\* The POST ends and send_webhook_alert returns; its caller ignores the
\* value and goes on to the next result.
PostDone(outcome) ==
    /\ main_pc = "posting"
    /\ LET r == send_webhook_alert(outcome)
       IN  IF r.raised
           THEN /\ main_pc' = "raised"
                /\ UNCHANGED << k, post_returns >>
           ELSE /\ main_pc' = "notify"
                /\ k' = k + 1
                /\ post_returns' = Append(post_returns, r.value)
    /\ UNCHANGED << other_vars, config_vars, task_vars, results, log_attempts, alert_log,
                    posts >>

\* The loop is exhausted: `return results`.
Return ==
    /\ main_pc = "notify"
    /\ k \notin 1..Len(results)
    /\ main_pc' = "returned"
    /\ UNCHANGED << other_vars, config_vars, task_vars, results, k, notify_vars >>

Next ==
    \/ \E i \in 1..N : AcquireFree(i)
    \/ \E i \in 1..N : AcquireWait(i)
    \/ \E i \in 1..N : Resume(i)
    \/ \E i \in 1..N : \E out \in PriceSourceOutputs : Complete(i, out)
    \/ GatherReturn
    \/ SkipResult
    \/ \E outcome \in LogOutcomes : LogAlert(outcome)
    \/ NoWebhook
    \/ StartPost
    \/ \E outcome \in PostOutcomes : PostDone(outcome)
    \/ Return

Spec == Init /\ [][Next]_vars

\* The event loop always runs a task that is ready, every Price Source
\* request returns and every POST ends (it has a 10 s timeout).
FairSpec == Spec /\ WF_vars(Next)

\* ------------------------------------------- utils.py, called directly

\* process_watchlist is not running.
NotCalled ==
    /\ items = <<>>
    /\ webhook_url = "None"
    /\ max_concurrent = 0
    /\ pc = <<>>
    /\ sem_value = 0
    /\ waiters = <<>>
    /\ requests = <<>>
    /\ prices = <<>>
    /\ task_results = <<>>
    /\ completed = <<>>
    /\ main_pc = "not_called"
    /\ results = <<>>
    /\ k = 1
    /\ log_attempts = <<>>
    /\ alert_log = <<>>
    /\ posts = <<>>
    /\ post_returns = <<>>

\* A caller is about to call remove_outliers(prices, m).
FilterInit ==
    /\ NotCalled
    /\ NoWatchMode
    /\ \E p \in ObservationSeqs, m \in Thresholds :
           call = [fn |-> "remove_outliers", prices |-> p, m |-> m]
    /\ ret = [fn |-> "none"]
    /\ ncalls = 0
    /\ csv = [exists |-> FALSE, rows |-> <<>>]
    /\ NoFetch

\* The call of remove_outliers returns.
RemoveOutliers ==
    /\ call.fn = "remove_outliers"
    /\ ret.fn = "none"
    /\ ret' = [fn |-> "remove_outliers",
               value |-> remove_outliers(call.prices, call.m)]
    /\ ncalls' = ncalls + 1
    /\ UNCHANGED << call, csv, fetch_vars, watch_vars, main_vars >>

FilterNext == RemoveOutliers

FilterSpec == FilterInit /\ [][FilterNext]_vars

\* ------------------------------------------- alerts.py, run_watch_mode

\* The program is started in watch mode on a watchlist document.
WatchInit ==
    /\ NotCalled
    /\ doc \in WatchlistDocs
    /\ wm_pc = "start"
    /\ run = 1
    /\ NoCalls

\* config = load_watchlist(watchlist_path) up to the call of
\* process_watchlist(config), which creates the semaphore and the tasks.
LoadWatchlist ==
    /\ wm_pc = "start"
    /\ LET r == load_watchlist(doc)
       IN  IF r.raised # "none"
           THEN /\ wm_pc' = "raised"
                /\ UNCHANGED main_vars
           ELSE IF r.config.is_none
           THEN /\ wm_pc' = "no_config"
                /\ UNCHANGED main_vars
           ELSE IF r.config.items = <<>>
           THEN /\ wm_pc' = "no_items"
                /\ UNCHANGED main_vars
           ELSE /\ wm_pc' = "checking"
                /\ items' = [i \in 1..Len(r.config.items) |->
                                 WatchlistItem(i, r.config.items[i])]
                /\ webhook_url' = r.config.webhook_url
                /\ max_concurrent' = DefaultMaxConcurrent
                /\ pc' = [i \in 1..Len(r.config.items) |-> "created"]
                /\ sem_value' = SemaphoreInit(DefaultMaxConcurrent)
                /\ main_pc' = "gather"
                /\ UNCHANGED << waiters, requests, prices, task_results,
                                completed, results, k, notify_vars >>
    /\ call' = IF load_watchlist(doc).raised = "none"
                  /\ load_watchlist(doc).config.items # <<>>
               THEN [fn |-> "run_watch_mode",
                     items_checked |-> Len(load_watchlist(doc).config.items)]
               ELSE call
    /\ UNCHANGED << doc, run, ret, ncalls, csv, fetch_vars >>

RECURSIVE failed_checks_not_alerting(_)
RECURSIVE alerts_triggered(_)
RECURSIVE failed_checks(_)

\* A bug: every result that did not alert is counted as a failed check.
failed_checks_not_alerting(rs) ==
    IF rs = <<>> THEN 0
    ELSE (IF ~Head(rs).is_below_target THEN 1 ELSE 0)
         + failed_checks_not_alerting(Tail(rs))

\* sum(1 for r in results if r.is_below_target)
alerts_triggered(rs) ==
    IF rs = <<>> THEN 0
    ELSE (IF Head(rs).is_below_target THEN 1 ELSE 0) + alerts_triggered(Tail(rs))

\* sum(1 for r in results if r.current_price is None)
failed_checks(rs) ==
    IF rs = <<>> THEN 0
    ELSE (IF Head(rs).current_price = None THEN 1 ELSE 0) + failed_checks(Tail(rs))

\* process_watchlist has returned: the summary
\* "Done! {alerts_triggered} alerts triggered, {failed_checks} checks failed"
\* is logged and the run ends.
Summary ==
    /\ wm_pc = "checking"
    /\ main_pc = "returned"
    /\ wm_pc' = "done"
    /\ ret' = [fn |-> "run_watch_mode",
               alerts_triggered |-> alerts_triggered(results),
               failed_checks    |-> failed_checks(results)]
    /\ UNCHANGED << doc, run, call, ncalls, csv, fetch_vars, main_vars >>

\* The program is started again on the same document after a run that
\* checked the watchlist.  The alert log is a file: it is all that is left
\* of the earlier run.
RunAgain ==
    /\ wm_pc = "done"
    /\ run < MaxRuns
    /\ run' = run + 1
    /\ wm_pc' = "start"
    /\ items' = <<>>
    /\ webhook_url' = "None"
    /\ max_concurrent' = 0
    /\ pc' = <<>>
    /\ sem_value' = 0
    /\ waiters' = <<>>
    /\ requests' = <<>>
    /\ prices' = <<>>
    /\ task_results' = <<>>
    /\ completed' = <<>>
    /\ main_pc' = "not_called"
    /\ results' = <<>>
    /\ k' = 1
    /\ log_attempts' = <<>>
    /\ posts' = <<>>
    /\ post_returns' = <<>>
    /\ call' = [fn |-> "none"]
    /\ ret' = [fn |-> "none"]
    /\ UNCHANGED << doc, alert_log, ncalls, csv, fetch_vars >>

\* With DefaultMaxConcurrent slots and no more tasks than slots no task
\* ever waits for the semaphore: AcquireWait and Resume cannot happen.
WatchNext ==
    \/ LoadWatchlist
    \/ \E i \in 1..N : AcquireFree(i)
    \/ \E i \in 1..N : \E out \in PriceSourceOutputs : Complete(i, out)
    \/ GatherReturn
    \/ SkipResult
    \/ \E outcome \in LogOutcomes : LogAlert(outcome)
    \/ NoWebhook
    \/ StartPost
    \/ \E outcome \in PostOutcomes : PostDone(outcome)
    \/ Return
    \/ Summary
    \/ RunAgain

WatchSpec == WatchInit /\ [][WatchNext]_vars

\* ------------------------------------------------- utils.py, prices.csv

CsvInit ==
    /\ NotCalled
    /\ NoWatchMode
    /\ call = [fn |-> "none"]
    /\ ret = [fn |-> "none"]
    /\ ncalls = 0
    /\ csv \in CsvFiles
    /\ NoFetch

\* One call of save_to_file, from its entry to its return.
SaveToFile(listed_prices, sold_prices, item_name, outcome) ==
    /\ ncalls < MaxSaves
    /\ LET r == save_to_file(csv, listed_prices, sold_prices, item_name, outcome)
       IN  /\ csv' = r.file
           /\ ret' = [fn |-> "save_to_file", logged |-> r.logged]
    /\ call' = [fn |-> "save_to_file", listed_prices |-> listed_prices,
                sold_prices |-> sold_prices, item_name |-> item_name]
    /\ ncalls' = ncalls + 1
    /\ UNCHANGED << fetch_vars, watch_vars, main_vars >>

CsvNext ==
    \E listed_prices \in SavedPrices, sold_prices \in SavedPrices,
       outcome \in LogOutcomes :
        SaveToFile(listed_prices, sold_prices, "switch", outcome)

CsvSpec == CsvInit /\ [][CsvNext]_vars

\* ------------------------------------------- main.py, one item at a time

\* A caller is about to call validate_url(link) or
\* process_item(link, item_name); listed and sold are what the two
\* get_prices_by_link calls will return.
ItemInit ==
    /\ NotCalled
    /\ NoWatchMode
    /\ \/ \E link \in Links :
              call = [fn |-> "validate_url", link |-> link]
       \/ \E link \in Links, item_name \in ItemNames,
             listed \in PriceSourceOutputs, sold \in PriceSourceOutputs :
              call = [fn |-> "process_item", link |-> link,
                      item_name |-> item_name, listed |-> listed, sold |-> sold]
    /\ ret = [fn |-> "none"]
    /\ ncalls = 0
    /\ csv = [exists |-> FALSE, rows |-> <<>>]
    /\ NoFetch

\* The call of validate_url returns.
ValidateUrl ==
    /\ call.fn = "validate_url"
    /\ ret.fn = "none"
    /\ ret' = [fn |-> "validate_url", value |-> validate_url(call.link)]
    /\ ncalls' = ncalls + 1
    /\ UNCHANGED << call, csv, fetch_vars, watch_vars, main_vars >>

\* The call of process_item returns.
ProcessItem ==
    /\ call.fn = "process_item"
    /\ ret.fn = "none"
    /\ ret' = [fn |-> "process_item",
               value |-> process_item(call.link, call.item_name,
                                      call.listed, call.sold)]
    /\ ncalls' = ncalls + 1
    /\ UNCHANGED << call, csv, fetch_vars, watch_vars, main_vars >>

ItemNext ==
    \/ ValidateUrl
    \/ ProcessItem

ItemSpec == ItemInit /\ [][ItemNext]_vars

\* ----------------------------------- alerts.py, the gate when a check raises

\* `await fetch_item_price(item)` raises in task i: the exception leaves
\* `async with semaphore`, whose exit releases the slot, and ends the task.
Fail(i) ==
    /\ pc[i] = "fetching"
    /\ LET r == release(sem_value, waiters)
       IN  /\ sem_value' = r.value
           /\ waiters' = r.waiters
           /\ pc' = [j \in 1..N |->
                        IF j = i THEN "failed"
                        ELSE IF j \in r.woken THEN "woken"
                        ELSE pc[j]]
    /\ UNCHANGED << other_vars, config_vars, requests, prices, task_results,
                    completed, main_pc, results, k, notify_vars >>

\* gather re-raises the exception of a failed task in process_watchlist at
\* once; the other tasks are not cancelled and go on.
GatherRaise ==
    /\ main_pc = "gather"
    /\ \E i \in 1..N : pc[i] = "failed"
    /\ main_pc' = "raised"
    /\ UNCHANGED << other_vars, config_vars, task_vars, results, k, notify_vars >>

GateNext ==
    \/ \E i \in 1..N : AcquireFree(i)
    \/ \E i \in 1..N : AcquireWait(i)
    \/ \E i \in 1..N : Resume(i)
    \/ \E i \in 1..N : \E out \in GateOutputs : Complete(i, out)
    \/ \E i \in 1..N : Fail(i)
    \/ GatherReturn
    \/ GatherRaise
    \/ SkipResult
    \/ \E outcome \in LogOutcomes : LogAlert(outcome)
    \/ NoWebhook
    \/ StartPost
    \/ \E outcome \in PostOutcomes : PostDone(outcome)
    \/ Return

GateSpec == Init /\ [][GateNext]_vars

\* --------------------------------------- utils.py, the page cache

\* A process that has not fetched anything yet.
FetchInit ==
    /\ NotCalled
    /\ NoWatchMode
    /\ NoCalls

\* One call of fetch_page_content(link).
FetchPageContent(link, outcome) ==
    /\ ncalls < MaxFetchCalls
    /\ LET f == fetch_page_content(cache, network, link, outcome)
       IN  /\ cache' = f.cache
           /\ network' = f.network
           /\ ret' = [fn |-> "fetch_page_content", value |-> f.value]
    /\ call' = [fn |-> "fetch_page_content", link |-> link]
    /\ ncalls' = ncalls + 1
    /\ UNCHANGED << csv, watch_vars, main_vars >>

\* One call of process_item(link, item_name), from entry to return.
ProcessItemFetching(link, item_name, out1, out2) ==
    /\ ncalls < MaxFetchCalls
    /\ LET r == process_item_fetching(cache, network, link, item_name, out1, out2)
       IN  /\ cache' = r.cache
           /\ network' = r.network
           /\ ret' = [fn |-> "process_item", value |-> r.value]
    /\ call' = [fn |-> "process_item", link |-> link, item_name |-> item_name]
    /\ ncalls' = ncalls + 1
    /\ UNCHANGED << csv, watch_vars, main_vars >>

FetchNext ==
    \/ \E link \in FetchLinks, outcome \in FetchOutcomes :
           FetchPageContent(link, outcome)
    \/ \E link \in FetchLinks, out1 \in FetchOutcomes, out2 \in FetchOutcomes :
           ProcessItemFetching(link, "switch", out1, out2)

FetchSpec == FetchInit /\ [][FetchNext]_vars

\* ------------------------------------------------------------ properties

Range(s) == { s[j] : j \in 1..Len(s) }

StrictlyIncreasing(s) == \A a, b \in 1..Len(s) : a < b => s[a] < s[b]

\* Tasks whose Price Source request has been started and has not finished.
Outstanding == { i \in 1..N : pc[i] = "fetching" }

\* gather has returned.
Collected == main_pc \in {"notify", "logged", "posting", "returned"}

\* Positions of `results` whose result is an alert.
Alerting == { j \in 1..Len(results) : results[j].is_below_target }

\* Positions of `results` the notification loop has left behind.
Passed == { j \in 1..Len(results) : j < k }

\* C1: while process_watchlist(config, max_concurrent = n) runs with n >= 1,
\* at most n Price Source requests are started and not yet finished.
C1_BoundedRequests ==
    max_concurrent >= 1 => Cardinality(Outstanding) <= max_concurrent

\* C1 witness: every slot is in use by an outstanding request while another
\* item queues at the gate.
C1_Witness ==
    /\ max_concurrent >= 1
    /\ Cardinality(Outstanding) = max_concurrent
    /\ \E i \in 1..N : pc[i] = "waiting"

\* C2: the list process_watchlist works on and returns holds exactly one
\* result per watchlist item, and the i-th result is the result of the i-th
\* item, whatever order the checks finished in.
C2_ResultsInItemOrder ==
    Collected =>
        /\ Len(results) = Len(items)
        /\ \A i \in 1..Len(results) : results[i].item = items[i]

\* C2 witness: the run has returned although the second item's check
\* finished before the first one's.
C2_Witness ==
    /\ main_pc = "returned"
    /\ Len(completed) >= 2
    /\ completed[1] > completed[2]
    /\ \A i \in 1..Len(results) : results[i].item = items[i]

\* C3: no alert-log append and no webhook POST happens before every item's
\* check has completed, and the notifications are dispatched in the order
\* of the items in the watchlist.
C3_NotifyAfterChecksInOrder ==
    /\ (log_attempts # <<>> \/ posts # <<>>) =>
           \A i \in 1..N : pc[i] = "done"
    /\ StrictlyIncreasing(log_attempts)
    /\ StrictlyIncreasing(posts)

\* C3 witness: two alerts have been logged and posted in watchlist order
\* although their checks finished in the opposite order.
C3_Witness ==
    /\ log_attempts = <<1, 2>>
    /\ posts = <<1, 2>>
    /\ completed = <<2, 1>>

\* C4: every result of check_price_alert has is_below_target true exactly
\* when the price is present and at most the target (a tie alerts), and
\* price_difference = current_price - target_price when the price is
\* present, 0 when it is absent.
C4_AlertIffAtOrBelowTarget ==
    \A i \in DOMAIN task_results :
        LET r  == task_results[i]
            cp == r.current_price
            pd == r.price_difference
            t  == items[i].target_price
        IN  /\ r.is_below_target <=>
                   (cp.kind = "num" /\ cp.num * t.den <= t.num * cp.den)
            /\ cp.kind = "None" => (pd.kind = "num" /\ pd.num = 0)
            /\ cp.kind = "num" =>
                   /\ pd.kind = "num"
                   /\ pd.num * cp.den * t.den
                          = (cp.num * t.den - t.num * cp.den) * pd.den
            /\ cp.kind = "nan" => pd.kind = "nan"

\* C4 witness: a price exactly equal to the target has produced an alert
\* with difference 0.
C4_Witness ==
    \E i \in DOMAIN task_results :
        /\ task_results[i].current_price = items[i].target_price
        /\ task_results[i].is_below_target
        /\ task_results[i].price_difference = Num(0, 1)

\* C5: an alert-log append or a webhook POST is made for an item only if
\* its result has is_below_target true; an item whose Price Source request
\* returned no observations has current_price absent, is_below_target false
\* and price_difference 0, and is never notified.
C5_OnlyAlertsNotified ==
    /\ \A i \in Range(log_attempts) \cup Range(posts) :
           task_results[i].is_below_target
    /\ \A i \in DOMAIN prices :
           prices[i] = <<>> =>
               /\ task_results[i].current_price = None
               /\ ~task_results[i].is_below_target
               /\ task_results[i].price_difference = Num(0, 1)
               /\ i \notin Range(log_attempts) \cup Range(posts)

\* C5 witness: the run has returned; the first item's request returned
\* nothing and only the second item was notified.
C5_Witness ==
    /\ main_pc = "returned"
    /\ N = 2
    /\ prices[1] = <<>>
    /\ log_attempts = <<2>>
    /\ posts = <<2>>

\* C6: a failure inside one item's check (no observations, or nothing left
\* to average after filtering) never leaves the check as an exception: the
\* check yields a result with current_price absent, and the run goes on.
C6_FailureYieldsNoPrice ==
    /\ main_pc # "raised"
    /\ \A i \in DOMAIN prices :
           (prices[i] = <<>> \/ remove_outliers(prices[i], DefaultM) = <<>>)
               => task_results[i].current_price = None

\* C7 (as claimed): for every max_concurrent the call accepts, the run can
\* go on until it has returned, and it returns only when no check is
\* pending.
C7_AlwaysReturns ==
    /\ main_pc = "returned" \/ ENABLED Next
    /\ main_pc = "returned" => \A i \in 1..N : pc[i] = "done"

\* C7 (amended): with max_concurrent >= 1, every item's check is
\* eventually completed and process_watchlist eventually returns; it never
\* returns while a check is pending.
C7_ReturnsWhenGateOpen ==
    /\ (max_concurrent >= 1) =>
           <>(main_pc = "returned" /\ \A i \in 1..N : pc[i] = "done")
    /\ [](main_pc = "returned" => \A i \in 1..N : pc[i] = "done")

\* C7 witness: the run has returned after an item had to queue at the gate
\* (more items than slots).
C7_Witness ==
    /\ main_pc = "returned"
    /\ max_concurrent >= 1
    /\ N > max_concurrent
    /\ \A i \in 1..N : pc[i] = "done"

\* C8: a failed alert-log append or a failed webhook POST does not abort
\* the run: the notifications of every later alerting result are still
\* attempted and the full result list is returned.
C8_DeliveryFailureDoesNotAbort ==
    /\ main_pc # "raised"
    /\ \A j \in Passed \cap Alerting :
           /\ results[j].item.id \in Range(log_attempts)
           /\ WebhookConfigured(webhook_url) =>
                  results[j].item.id \in Range(posts)
    /\ main_pc = "returned" =>
           /\ Passed = 1..Len(results)
           /\ Len(results) = Len(items)

\* C8 witness: the first alert's append and POST both failed, the second
\* alert was still logged and posted, and the run returned both results.
C8_Witness ==
    /\ main_pc = "returned"
    /\ log_attempts = <<1, 2>>
    /\ alert_log = <<2>>
    /\ posts = <<1, 2>>
    /\ post_returns = <<FALSE, TRUE>>
    /\ Len(results) = 2

\* C9: for one alerting result with a webhook URL configured the channels
\* fail independently: after a failed append the POST is still attempted,
\* and a failing POST leaves the alert log as the append left it.
C9_ChannelsIndependent ==
    /\ [](WebhookConfigured(webhook_url) =>
             \A i \in Range(log_attempts) :
                 \/ i \in Range(posts)
                 \/ main_pc = "logged" /\ results[k].item.id = i)
    /\ [][main_pc = "posting" =>
             /\ alert_log' = alert_log
             /\ posts[Len(posts)] \in Range(log_attempts')]_vars

\* C9 witness: the append of an alert failed and its POST has been sent.
C9_Witness ==
    /\ 1 \in Range(log_attempts)
    /\ 1 \notin Range(alert_log)
    /\ 1 \in Range(posts)

\* C10: the number of webhook POST attempts of a run is the number of
\* results with is_below_target true when a webhook URL is configured and
\* zero otherwise; no result is posted twice, so a failed POST is not
\* re-attempted.
C10_OnePostPerAlert ==
    /\ \A a, b \in 1..Len(posts) : a # b => posts[a] # posts[b]
    /\ webhook_url \in {"None", ""} => posts = <<>>
    /\ main_pc = "returned" =>
           Len(posts) = IF webhook_url \in {"None", ""}
                        THEN 0
                        ELSE Cardinality(Alerting)

\* C10 witness: the run has returned with two alerts and two POSTs, the
\* first of which failed.
C10_Witness ==
    /\ main_pc = "returned"
    /\ Cardinality(Alerting) = 2
    /\ Len(posts) = 2
    /\ post_returns[1] = FALSE

\* C12 (as claimed): remove_outliers applied to 4 or more identical
\* observations returns all of them, so an item whose observations all
\* equal a price p <= target_price is reported with current_price = p and
\* is_below_target true.
C12_IdenticalObservationsKept ==
    \A i \in DOMAIN prices :
        LET p == prices[i]
        IN  (Len(p) >= MinPoints /\ \A a \in 1..Len(p) : p[a] = p[1]) =>
                /\ remove_outliers(p, DefaultM) = p
                /\ FloatLeq(Num(p[1], 1), items[i].target_price) =>
                       /\ task_results[i].current_price = Num(p[1], 1)
                       /\ task_results[i].is_below_target

\* C13 (as claimed): when the sequence handed to get_average is empty it
\* signals no-data rather than a number, and the check gives the result of
\* an empty fetch: current_price absent, is_below_target false,
\* price_difference 0.
C13_EmptyAverageIsNoData ==
    \A i \in DOMAIN prices :
        (prices[i] # <<>> /\ remove_outliers(prices[i], DefaultM) = <<>>) =>
            /\ get_average(remove_outliers(prices[i], DefaultM)) = None
            /\ task_results[i] = check_price_alert(items[i], None)

\* An item's fields without the identity of the object.
Fields(item) ==
    [name         |-> item.name,
     target_price |-> item.target_price,
     check_sold   |-> item.check_sold]

Filtered == call.fn = "remove_outliers" /\ ret.fn = "remove_outliers"

\* n^2 times the sum of the squared deviations from the mean:
\* the sum over the x_j of (n*x_j - S)^2.
RECURSIVE SqDevs(_, _, _)
SqDevs(s, n, S) ==
    IF s = <<>> THEN 0
    ELSE (n * Head(s) - S) * (n * Head(s) - S) + SqDevs(Tail(s), n, S)

\* The observations do not all have the same value.
NonZeroSpread(data) == \E a, b \in 1..Len(data) : data[a] # data[b]

\* |x - mean| < m * sigma, sigma the population standard deviation:
\* sigma^2 is the mean of the squared deviations, so with n = len(data)
\* and S = sum(data) this is (n*x - S)^2 / n^2 < m^2 * SqDevs / n^3.
WithinStdDevs(x, data, m) ==
    LET n == Len(data)
        S == SumSeq(data)
    IN  /\ m.num > 0
        /\ m.den * m.den * n * (n * x - S) * (n * x - S)
               < m.num * m.num * SqDevs(data, n, S)

\* C14 (as claimed): for at least 4 observations with non-zero spread and
\* every threshold m > 0, remove_outliers returns a non-empty result.
C14_NeverRemovesAll ==
    (/\ Filtered
     /\ Len(call.prices) >= MinPoints
     /\ NonZeroSpread(call.prices)
     /\ call.m.num > 0)
        => ret.value # <<>>

\* C14 (amended): for at least 4 observations with non-zero spread and
\* every threshold m > 1, remove_outliers returns a non-empty result.
C14_NeverRemovesAllAboveOne ==
    (/\ Filtered
     /\ Len(call.prices) >= MinPoints
     /\ NonZeroSpread(call.prices)
     /\ call.m.num > call.m.den)
        => ret.value # <<>>

\* C14 witness: a filtering with m > 1 that removed an observation and
\* kept another.
C14_Witness ==
    /\ Filtered
    /\ Len(call.prices) >= MinPoints
    /\ NonZeroSpread(call.prices)
    /\ call.m.num > call.m.den
    /\ ret.value # <<>>
    /\ Len(ret.value) < Len(call.prices)

\* C15: for at least 4 observations with non-zero spread remove_outliers
\* returns exactly the observations x with |x - mean| < m * (population
\* standard deviation), in input order; fewer than 4 observations are
\* returned unchanged; [10, ..., 19, 100] with m = 2 loses 100 only.
C15_KeepsExactlyWithinThreshold ==
    Filtered =>
        /\ (Len(call.prices) >= MinPoints /\ NonZeroSpread(call.prices)) =>
               ret.value = SelectSeq(call.prices,
                               LAMBDA x : WithinStdDevs(x, call.prices, call.m))
        /\ Len(call.prices) < MinPoints => ret.value = call.prices
        /\ (call.prices = TestPrices /\ call.m = DefaultM) =>
               ret.value = <<10, 11, 12, 13, 14, 15, 16, 17, 18, 19>>

\* C15 witness: the test's prices were filtered with m = 2 and 100 is gone.
C15_Witness ==
    /\ Filtered
    /\ call.prices = TestPrices
    /\ call.m = DefaultM
    /\ Len(ret.value) = Len(TestPrices) - 1

\* C11 (as claimed): on a missing or malformed watchlist document
\* load_watchlist returns None instead of raising, and run_watch_mode ends
\* without any Price Source request, alert-log append or webhook POST.
C11_MalformedEndsWithoutConfig ==
    (doc.kind \in MalformedKinds /\ wm_pc # "start") =>
        /\ load_watchlist(doc).raised = "none"
        /\ wm_pc = "no_config"
        /\ main_pc = "not_called"
        /\ prices = <<>>
        /\ log_attempts = <<>>
        /\ posts = <<>>

\* The number of occurrences of x in the sequence s.
Count(s, x) == Cardinality({ j \in 1..Len(s) : s[j] = x })

\* C16: in every run, whatever the alert log holds from earlier runs, each
\* result with is_below_target gets one append to the alert log and, with a
\* webhook URL, one POST; the append adds at most one record, for that
\* item, at the end of the log and leaves the earlier records in place.
C16_EveryRunNotifiesAgain ==
    /\ [](wm_pc = "done" =>
            \A idx \in 1..Len(results) :
                results[idx].is_below_target =>
                    /\ Count(log_attempts, results[idx].item.id) = 1
                    /\ WebhookConfigured(webhook_url) =>
                           Count(posts, results[idx].item.id) = 1)
    /\ [][(wm_pc = "checking" /\ log_attempts' # log_attempts) =>
              \/ alert_log' = Append(alert_log, results[k].item.id)
              \/ alert_log' = alert_log]_vars
    /\ [][(wm_pc = "checking" /\ log_attempts' = log_attempts) =>
              alert_log' = alert_log]_vars

\* C16 witness: the second run has ended; the item alerted in both runs,
\* was appended to the alert log both times and posted in the second run.
C16_Witness ==
    /\ wm_pc = "done"
    /\ run = 2
    /\ alert_log = <<1, 1>>
    /\ Len(results) = 1
    /\ results[1].is_below_target
    /\ log_attempts = <<1>>
    /\ posts = <<1>>

\* s is an initial part of t.
IsPrefix(s, t) == Len(s) <= Len(t) /\ \A j \in 1..Len(s) : s[j] = t[j]

C18_ListedPricesSuffice ==
    (/\ call.fn = "process_item"
     /\ ret.fn = "process_item"
     /\ validate_url(call.link)
     /\ call.item_name = "switch")
        => /\ call.listed # <<>> =>
                  /\ ~ret.value.is_none
                  /\ ret.value.listed_avg.kind = "num"
                  /\ ret.value.listed_prices # <<>>
                  /\ call.sold = <<>> =>
                         /\ ret.value.sold_avg = None
                         /\ ret.value.sold_prices = <<>>
           /\ call.listed = <<>> => ret.value = NoResult

\* The domain is an eBay domain.
IsEbayDomain(netloc) == netloc \in { "ebay.com", "www.ebay.com" }

\* C19 (as claimed): validate_url accepts a URL only if it has a scheme
\* and an eBay domain: True for http(s) URLs on ebay.com, False for
\* https://evil.com and for not-a-url.
C19_OnlyEbayUrlsAccepted ==
    (call.fn = "validate_url" /\ ret.fn = "validate_url") =>
        LET parsed_url == urlparse(call.link)
        IN  /\ ret.value =>
                   parsed_url.scheme # "" /\ IsEbayDomain(parsed_url.netloc)
            /\ (/\ parsed_url.scheme \in { "https", "http" }
                /\ IsEbayDomain(parsed_url.netloc)) => ret.value
            /\ call.link = <<"https", ":", "//", "evil.com">> => ~ret.value
            /\ call.link = <<"not-a-url">> => ~ret.value

\* C21: at the end of run_watch_mode the items-checked count is the number
\* of watchlist items, the alerts-triggered count is the number of results
\* with is_below_target (and the number of alert-log appends attempted in
\* the run), the failed-checks count is the number of results without a
\* current_price, no result is in both counts, and the two counts together
\* do not exceed the items checked.
C21_SummaryMatchesRun ==
    wm_pc = "done" =>
        LET alerting == { j \in 1..Len(results) : results[j].is_below_target }
            failed   == { j \in 1..Len(results) : results[j].current_price = None }
        IN  /\ call.items_checked = Len(doc.items)
            /\ call.items_checked = Len(results)
            /\ ret.alerts_triggered = Cardinality(alerting)
            /\ ret.alerts_triggered = Len(log_attempts)
            /\ ret.failed_checks = Cardinality(failed)
            /\ alerting \cap failed = {}
            /\ ret.alerts_triggered + ret.failed_checks <= call.items_checked

\* C21 witness: a run has ended that reported one alert and no failed
\* check, after a run on the same file already appended to the alert log.
C21_Witness ==
    /\ wm_pc = "done"
    /\ run = 2
    /\ alert_log # <<>>
    /\ ret.alerts_triggered = 1
    /\ ret.failed_checks = 0

\* The requests issued for watchlist entry i.
RequestsOf(i) == { j \in 1..Len(requests) : requests[j].task = i }

\* C22: in one run of process_watchlist every watchlist entry gets at most
\* one Price Source request, made with that entry's name and check_sold
\* flag; an entry whose check has started has exactly one; an entry with
\* the name of another entry has a request and a result of its own; once
\* gather has returned no entry has been skipped.
C22_OneRequestPerEntry ==
    /\ \A j \in 1..Len(requests) : requests[j].task \in 1..N
    /\ \A i \in 1..N :
           /\ Cardinality(RequestsOf(i)) =
                  IF pc[i] \in { "fetching", "done" } THEN 1 ELSE 0
           /\ \A j \in RequestsOf(i) :
                  /\ requests[j].sold_only = items[i].check_sold
                  /\ requests[j].link[Len(requests[j].link)
                         - (IF items[i].check_sold THEN 1 ELSE 0)]
                         = "?_nkw=" \o items[i].name
                  /\ urlparse(requests[j].link).netloc = "www.ebay.com"
           /\ i \in DOMAIN task_results => task_results[i].item = items[i]
    /\ main_pc # "gather" =>
           /\ Len(requests) = N
           /\ Len(results) = N
           /\ \A i \in 1..N : results[i].item.id = i

\* C22 witness: two entries with the same name were both requested, the
\* second request answered first and differently, and the run has ended
\* with two results that differ.
C22_Witness ==
    /\ main_pc = "returned"
    /\ N = 2
    /\ items[1].name = items[2].name
    /\ Len(requests) = 2
    /\ completed = <<2, 1>>
    /\ results[1].current_price # results[2].current_price

\* The checks that hold a slot: inside `async with`, or handed the slot by
\* a release and about to resume.
Holding == { i \in 1..N : pc[i] \in { "fetching", "woken" } }

\* The checks that have left `async with`, by returning or by raising.
Finished == { i \in 1..N : pc[i] \in { "done", "failed" } }

\* C23: in every reachable state of process_watchlist the free slots plus
\* the checks holding a slot equal max_concurrent; a check gives its slot
\* back exactly once, in the step in which it finishes by returning or by
\* raising (one more free slot, or the slot handed to the first waiter),
\* and in no other step does a slot come free; when process_watchlist
\* returns all max_concurrent slots are free.
C23_GateNeverLeaks ==
    /\ [](sem_value + Cardinality(Holding) = max_concurrent)
    /\ []((main_pc = "returned") => (sem_value = max_concurrent /\ waiters = <<>>))
    /\ [][\A i \in 1..N :
              /\ (i \in Holding /\ pc'[i] \in { "done", "failed" }) =>
                     \/ /\ waiters = <<>>
                        /\ sem_value' = sem_value + 1
                        /\ Holding' = Holding \ {i}
                     \/ /\ waiters # <<>>
                        /\ sem_value' = sem_value
                        /\ waiters' = Tail(waiters)
                        /\ Holding' = (Holding \ {i}) \cup { Head(waiters) }
              /\ i \in Finished => pc'[i] = pc[i]
              /\ pc'[i] \in { "done", "failed" } => i \in Holding \cup Finished
       ]_vars
    /\ [][sem_value' > sem_value => Cardinality(Finished') = Cardinality(Finished) + 1
       ]_vars

\* C23 witness: a check ended by raising while another check waited at the
\* gate; the slot went to the waiter, which then finished, and every slot
\* is free again.
C23_Witness ==
    /\ N = 2
    /\ max_concurrent = 1
    /\ pc[1] = "failed"
    /\ pc[2] = "done"
    /\ sem_value = max_concurrent
    /\ waiters = <<>>

\* The webhook POSTs that have been started and have not ended.
InFlight == Len(posts) - Len(post_returns)

\* C24: notifications are dispatched one after the other.  The POST of a
\* result is started only after that result's alert-log append; the append
\* of the next alerting result begins only when no POST is in flight and
\* the earlier alerts have had theirs; at most one POST is in flight and
\* nothing else is started meanwhile; every alerting result gets exactly
\* one append attempt.
C24_DispatchSequential ==
    /\ [](/\ InFlight \in { 0, 1 }
          /\ InFlight = 1 <=> main_pc = "posting"
          /\ Len(posts) <= Len(log_attempts)
          /\ \A j \in 1..Len(posts) : posts[j] \in Range(log_attempts)
          /\ \A a, b \in 1..Len(log_attempts) :
                 a # b => log_attempts[a] # log_attempts[b]
          /\ main_pc = "returned" =>
                 Range(log_attempts) = { results[j].item.id : j \in Alerting })
    /\ [][log_attempts' # log_attempts =>
              /\ InFlight = 0
              /\ posts' = posts
              /\ WebhookConfigured(webhook_url) => Len(posts) = Len(log_attempts)
              /\ Len(log_attempts') = Len(log_attempts) + 1]_vars
    /\ [][posts' # posts =>
              /\ InFlight = 0
              /\ log_attempts' = log_attempts
              /\ posts' = Append(posts, log_attempts[Len(log_attempts)])]_vars
    /\ [][InFlight = 1 =>
              /\ log_attempts' = log_attempts
              /\ posts' = posts
              /\ alert_log' = alert_log]_vars

\* C24 witness: the POST of the second alert is in flight; the first alert
\* was logged and its POST ended, in failure, before the second was logged.
C24_Witness ==
    /\ main_pc = "posting"
    /\ log_attempts = <<1, 2>>
    /\ posts = <<1, 2>>
    /\ post_returns = <<FALSE>>

\* A call has just been made (the step from one call to the next).
Called(fn) == ncalls' = ncalls + 1 /\ call'.fn = fn

\* C25: while a link stays in the cache of fetch_page_content it is
\* requested from the network at most once: the first call requests it and
\* its outcome is remembered, None included; every later call returns that
\* outcome without a request.  A call of process_item makes at most one
\* request, for its link, and both of its price lists come from the one
\* page the cache holds for the link.
C25_OneRequestPerCachedLink ==
    /\ [](\A a, b \in 1..Len(network) : a # b => network[a] # network[b])
    /\ [][\A j \in 1..Len(cache) :
              /\ CacheHas(cache', cache[j].link)
              /\ CacheGet(cache', cache[j].link) = cache[j].value]_vars
    /\ [][Called("fetch_page_content") =>
              IF CacheHas(cache, call'.link)
              THEN /\ network' = network
                   /\ ret'.value = CacheGet(cache, call'.link)
              ELSE /\ network' = Append(network, call'.link)
                   /\ CacheHas(cache', call'.link)
                   /\ CacheGet(cache', call'.link) = ret'.value]_vars
    /\ [][Called("process_item") =>
              /\ \/ network' = network
                 \/ /\ network' = Append(network, call'.link)
                    /\ ~CacheHas(cache, call'.link)
              /\ ~ret'.value.is_none =>
                     /\ CacheHas(cache', call'.link)
                     /\ LET content == CacheGet(cache', call'.link)
                        IN  /\ ~content.is_none
                            /\ ret'.value.listed_prices =
                                   remove_outliers(content.listed, DefaultM)
                            /\ ret'.value.sold_prices =
                                   IF content.sold = <<>> THEN <<>>
                                   ELSE remove_outliers(content.sold, DefaultM)]_vars

\* C25 witness: the first fetch of a link failed; two more calls later,
\* the last one by process_item, the link has still been requested once.
C25_Witness ==
    /\ ncalls = 3
    /\ call.fn = "process_item"
    /\ network = <<call.link>>
    /\ CacheHas(cache, call.link)
    /\ CacheGet(cache, call.link) = NoPage
    /\ ret.value = NoResult

====
